---- MODULE Spec2Model ----
(***************************************************************************)
(* Model of src/main.py: Match.get_best_odds, ArbitrageCalculator.evaluate *)
(* and the batch loop of main.                                             *)
(*                                                                         *)
(* Python floats are IEEE-754 binary64 and are modelled bit-exactly: a     *)
(* float is sgn * m * 2^e with m a 53-bit natural held as a sequence of    *)
(* 15-bit limbs (least significant first), and +, *, / round to nearest,   *)
(* ties to even, as the hardware does.                                     *)
(***************************************************************************)
EXTENDS Integers, Sequences, FiniteSets, TLC

(***************************************************************************)
(* Natural numbers of arbitrary size: sequences of limbs, least            *)
(* significant first, no leading zero limb; zero is <<>>.                  *)
(***************************************************************************)
LimbBits == 15
Base == 2^LimbBits
MantBits == 53

Hd(x) == IF x = <<>> THEN 0 ELSE Head(x)
Tl(x) == IF x = <<>> THEN <<>> ELSE Tail(x)

RECURSIVE BNorm(_)
BNorm(x) ==
    IF x = <<>> THEN <<>>
    ELSE IF x[Len(x)] = 0 THEN BNorm(SubSeq(x, 1, Len(x) - 1)) ELSE x

RECURSIVE FromInt(_)
FromInt(n) == IF n = 0 THEN <<>> ELSE <<n % Base>> \o FromInt(n \div Base)

RECURSIVE ToInt(_)
ToInt(x) == IF x = <<>> THEN 0 ELSE Head(x) + Base * ToInt(Tail(x))

RECURSIVE BAddC(_, _, _)
BAddC(x, y, c) ==
    IF x = <<>> /\ y = <<>> THEN (IF c = 0 THEN <<>> ELSE <<c>>)
    ELSE LET s == Hd(x) + Hd(y) + c
         IN  <<s % Base>> \o BAddC(Tl(x), Tl(y), s \div Base)

BAdd(x, y) == BAddC(x, y, 0)

RECURSIVE BSubB(_, _, _)
BSubB(x, y, b) ==
    IF x = <<>> THEN <<>>
    ELSE LET d == Head(x) - Hd(y) - b
         IN  <<IF d < 0 THEN d + Base ELSE d>>
                 \o BSubB(Tail(x), Tl(y), IF d < 0 THEN 1 ELSE 0)

\* x - y, for x >= y
BSub(x, y) == BNorm(BSubB(x, y, 0))

RECURSIVE BCmpFrom(_, _, _)
BCmpFrom(x, y, i) ==
    IF i = 0 THEN 0
    ELSE IF x[i] # y[i] THEN (IF x[i] < y[i] THEN -1 ELSE 1)
    ELSE BCmpFrom(x, y, i - 1)

\* -1, 0, 1 as x < y, x = y, x > y
BCmp(x, y) ==
    IF Len(x) # Len(y) THEN (IF Len(x) < Len(y) THEN -1 ELSE 1)
    ELSE BCmpFrom(x, y, Len(x))

RECURSIVE BMulSmallC(_, _, _)
BMulSmallC(x, k, c) ==
    IF x = <<>> THEN (IF c = 0 THEN <<>> ELSE <<c>>)
    ELSE LET p == Head(x) * k + c
         IN  <<p % Base>> \o BMulSmallC(Tail(x), k, p \div Base)

\* x * k, for 0 <= k <= Base
BMulSmall(x, k) == IF k = 0 THEN <<>> ELSE BMulSmallC(x, k, 0)

\* x * Base
BUp(x) == IF x = <<>> THEN <<>> ELSE <<0>> \o x

RECURSIVE BMul(_, _)
BMul(x, y) ==
    IF y = <<>> THEN <<>>
    ELSE BAdd(BMulSmall(x, Head(y)), BUp(BMul(x, Tail(y))))

RECURSIVE IntBitLen(_)
IntBitLen(n) == IF n = 0 THEN 0 ELSE 1 + IntBitLen(n \div 2)

BitLen(x) ==
    IF x = <<>> THEN 0 ELSE LimbBits * (Len(x) - 1) + IntBitLen(x[Len(x)])

RECURSIVE BUpN(_, _)
BUpN(x, q) == IF q = 0 THEN x ELSE BUpN(BUp(x), q - 1)

\* x * 2^n
BShl(x, n) == BUpN(BMulSmall(x, 2^(n % LimbBits)), n \div LimbBits)

RECURSIVE BShrBits(_, _)
BShrBits(x, r) ==
    IF x = <<>> THEN <<>>
    ELSE <<(Head(x) \div 2^r) + (Hd(Tail(x)) % 2^r) * 2^(LimbBits - r)>>
             \o BShrBits(Tail(x), r)

\* floor(x / 2^n)
BShr(x, n) ==
    LET q == n \div LimbBits
    IN  IF q >= Len(x) THEN <<>>
        ELSE BNorm(BShrBits(SubSeq(x, q + 1, Len(x)), n % LimbBits))

BOdd(x) == Hd(x) % 2 = 1

\* x mod 2^n
BLow(x, n) ==
    LET q == n \div LimbBits
    IN  IF q >= Len(x) THEN x
        ELSE BNorm(SubSeq(x, 1, q) \o <<x[q + 1] % 2^(n % LimbBits)>>)

\* x * 2^(-s) rounded to the nearest integer, ties to the even one
RoundShift(x, s) ==
    IF s <= 0 THEN BShl(x, 0 - s)
    ELSE LET q == BShr(x, s)
             c == BCmp(BLow(x, s), BShl(<<1>>, s - 1))
         IN  IF c > 0 \/ (c = 0 /\ BOdd(q)) THEN BAdd(q, <<1>>) ELSE q

(***************************************************************************)
(* binary64 values: [sgn, m, e] is sgn * m * 2^e, 2^52 <= m < 2^53; zero   *)
(* has m = <<>>.  Exponent range and subnormals are not reached by the     *)
(* magnitudes of this program.                                             *)
(***************************************************************************)
FZero == [sgn |-> 1, m |-> <<>>, e |-> 0]

\* the double nearest sgn * x * 2^e
FRound(sgn, x, e) ==
    IF x = <<>> THEN FZero
    ELSE LET s == BitLen(x) - MantBits
             m == RoundShift(x, s)
         IN  IF BitLen(m) > MantBits
             THEN [sgn |-> sgn, m |-> BShr(m, 1), e |-> e + s + 1]
             ELSE [sgn |-> sgn, m |-> m, e |-> e + s]

\* float(n) for an int n
FInt(n) == FRound(IF n < 0 THEN -1 ELSE 1, FromInt(IF n < 0 THEN 0 - n ELSE n), 0)

FIsZero(x) == x.m = <<>>
FNeg(x) == IF FIsZero(x) THEN x ELSE [x EXCEPT !.sgn = 0 - x.sgn]

FMul(x, y) ==
    IF FIsZero(x) \/ FIsZero(y) THEN FZero
    ELSE FRound(x.sgn * y.sgn, BMul(x.m, y.m), x.e + y.e)

FAdd(x, y) ==
    IF FIsZero(x) THEN y
    ELSE IF FIsZero(y) THEN x
    ELSE LET e == IF x.e < y.e THEN x.e ELSE y.e
             a == BShl(x.m, x.e - e)
             b == BShl(y.m, y.e - e)
             c == BCmp(a, b)
         IN  IF x.sgn = y.sgn THEN FRound(x.sgn, BAdd(a, b), e)
             ELSE IF c = 0 THEN FZero
             ELSE IF c > 0 THEN FRound(x.sgn, BSub(a, b), e)
             ELSE FRound(y.sgn, BSub(b, a), e)

FSub(x, y) == FAdd(x, FNeg(y))

\* x < y
FLess(x, y) == LET d == FSub(x, y) IN ~FIsZero(d) /\ d.sgn = -1

\* floor(x / 2^n) as an int, for x < 2^(n + 30)
TopInt(x, n) == ToInt(BShr(x, n))

\* r - k * d, and the quotient digit raised, while r >= d (the estimate of a
\* digit is at most 3 short)
DivFix(st, d) ==
    IF BCmp(st.r, d) >= 0 THEN [r |-> BSub(st.r, d), q |-> st.q + 1] ELSE st

\* one digit of long division by the 53-bit d, for r < Base * d: the digit is
\* estimated from the leading 30 bits of r and 15 bits of d, then corrected
DivDigit(r, d) ==
    LET est == TopInt(r, MantBits - LimbBits) \div (TopInt(d, MantBits - LimbBits) + 1)
    IN  DivFix(DivFix(DivFix([r |-> BSub(r, BMulSmall(d, est)), q |-> est], d), d), d)

\* k digits of the quotient of st.r / d appended to st.q; st.r < d
RECURSIVE DivLoop(_, _, _)
DivLoop(st, d, k) ==
    IF k = 0 THEN st
    ELSE IF st.r = <<>> THEN [r |-> <<>>, q |-> BUpN(st.q, k)]
    ELSE LET dg == DivDigit(BUp(st.r), d)
         IN  DivLoop([r |-> dg.r, q |-> <<dg.q>> \o st.q], d, k - 1)

DivDigits == 4

\* x / y for y # 0: the quotient to 60 fraction bits and a sticky bit for the
\* remainder, rounded
FDiv(x, y) ==
    IF FIsZero(x) \/ FIsZero(y) THEN FZero
    ELSE LET d0 == DivFix([r |-> x.m, q |-> 0], y.m)
             st == DivLoop([r |-> d0.r, q |-> <<d0.q>>], y.m, DivDigits)
             q  == BNorm(st.q)
         IN  FRound(x.sgn * y.sgn,
                    BAddC(BMulSmall(q, 2), <<>>, IF st.r = <<>> THEN 0 ELSE 1),
                    x.e - y.e - DivDigits * LimbBits - 1)

\* round(x, ndigits) of Python, as the integer n with result n / 10^ndigits:
\* the exact binary value times 10^ndigits, to the nearest integer, ties to even
PyRound(x, ndigits) ==
    IF FIsZero(x) THEN 0
    ELSE x.sgn * ToInt(RoundShift(BMul(x.m, FromInt(10^ndigits)), 0 - x.e))

FOne == FInt(1)

(***************************************************************************)
(* Exact rationals <<n, d>>, d > 0, in lowest terms: the arithmetic the    *)
(* formulas of evaluate denote, without rounding.                          *)
(***************************************************************************)
Abs(n) == IF n < 0 THEN 0 - n ELSE n

RECURSIVE Gcd(_, _)
Gcd(a, b) == IF b = 0 THEN a ELSE Gcd(b, a % b)

Rat(n, d) ==
    LET g == Gcd(Abs(n), Abs(d))
    IN  IF d < 0 THEN <<(0 - n) \div g, (0 - d) \div g>> ELSE <<n \div g, d \div g>>

RatAdd(a, b) == Rat(a[1] * b[2] + b[1] * a[2], a[2] * b[2])
RatMul(a, b) == Rat(a[1] * b[1], a[2] * b[2])
RatDiv(a, b) == Rat(a[1] * b[2], a[2] * b[1])
RatLess(a, b) == a[1] * b[2] < b[1] * a[2]

RECURSIVE RatSum(_, _)
RatSum(xs, k) == IF k = 0 THEN <<0, 1>> ELSE RatAdd(RatSum(xs, k - 1), xs[k])

(***************************************************************************)
(* Data.  A decoded JSON object is a record whose fields are the keys it   *)
(* has; d["k"] raises KeyError when k is not among them.  A price is the   *)
(* JSON number in hundredths (2.5 is 250); None is <<>> and a value x that *)
(* may be None is <<x>>.  A dict is the sequence of its items in insertion *)
(* order.                                                                  *)
(***************************************************************************)
None == <<>>
Some(x) == <<x>>

HasKey(d, k) == k \in DOMAIN d

\* the first of keys that d lacks, "" when it has them all
MissingKey(d, keys) ==
    LET miss == {j \in 1..Len(keys) : ~HasKey(d, keys[j])}
    IN  IF miss = {} THEN ""
        ELSE keys[CHOOSE j \in miss : \A l \in miss : j <= l]

Returned(v, self) == [exc |-> "", key |-> "", val |-> v, self |-> self]
Raised(e, k) == [exc |-> e, key |-> k, val |-> None, self |-> None]

\* Match.__init__
NewMatch(match_data) ==
    LET k == MissingKey(match_data, <<"home_team", "away_team", "commence_time", "bookmakers">>)
    IN  IF k # "" THEN Raised("KeyError", k)
        ELSE Returned(None, [home_team     |-> match_data.home_team,
                             away_team     |-> match_data.away_team,
                             commence_time |-> match_data.commence_time,
                             bookmakers    |-> match_data.bookmakers])

\* the positions of name in the dict best_odds
KeyAt(best_odds, name) == {j \in 1..Len(best_odds) : best_odds[j].name = name}

\* a variant that keeps the first price seen for a name, whatever comes later
RecordFirstSeen(best_odds, name, price, bookmaker_name) ==
    IF KeyAt(best_odds, name) = {}
    THEN Append(best_odds, [name |-> name, price |-> price, bookmaker |-> bookmaker_name])
    ELSE best_odds

\* a variant that lets an equal price replace the record (>= for >)
RecordIfNotWorse(best_odds, name, price, bookmaker_name) ==
    LET at == KeyAt(best_odds, name)
        item == [name |-> name, price |-> price, bookmaker |-> bookmaker_name]
    IN  IF at = {} THEN Append(best_odds, item)
        ELSE LET j == CHOOSE j \in at : TRUE
             IN  IF price >= best_odds[j].price
                 THEN [best_odds EXCEPT ![j] = item]
                 ELSE best_odds

\* if name not in best_odds or price > best_odds[name][0]:
\*     best_odds[name] = (price, bookmaker_name)
RecordIfBetter(best_odds, name, price, bookmaker_name) ==
    LET at == KeyAt(best_odds, name)
        item == [name |-> name, price |-> price, bookmaker |-> bookmaker_name]
    IN  IF at = {} THEN Append(best_odds, item)
        ELSE LET j == CHOOSE j \in at : TRUE
             IN  IF price > best_odds[j].price
                 THEN [best_odds EXCEPT ![j] = item]
                 ELSE best_odds

\* for outcome in market["outcomes"], from the k-th on
RECURSIVE ScanOutcomes(_, _, _, _)
ScanOutcomes(best_odds, outcomes, bookmaker_name, k) ==
    IF k > Len(outcomes) THEN Returned(best_odds, None)
    ELSE LET miss == MissingKey(outcomes[k], <<"name", "price">>)
         IN  IF miss # "" THEN Raised("KeyError", miss)
             ELSE ScanOutcomes(RecordIfBetter(best_odds, outcomes[k].name,
                                              outcomes[k].price, bookmaker_name),
                               outcomes, bookmaker_name, k + 1)

RECURSIVE ScanBookmakers(_, _, _)

\* a variant in which the IndexError of markets[0] is not caught
NoFirstMarketRaises(best_odds, bookmakers, k) == Raised("IndexError", "")

\* except IndexError: continue
NoFirstMarket(best_odds, bookmakers, k) == ScanBookmakers(best_odds, bookmakers, k + 1)

\* market = bookmaker["markets"][0]
FirstMarket(markets) == markets[1]

\* for bookmaker in self.bookmakers, from the k-th on
ScanBookmakers(best_odds, bookmakers, k) ==
    IF k > Len(bookmakers) THEN Returned(best_odds, None)
    ELSE LET bookmaker == bookmakers[k]
             miss == MissingKey(bookmaker, <<"title", "markets">>)
         IN  IF miss # "" THEN Raised("KeyError", miss)
             ELSE IF bookmaker.markets = <<>>
             THEN NoFirstMarket(best_odds, bookmakers, k)
             ELSE IF ~HasKey(FirstMarket(bookmaker.markets), "outcomes")
             THEN Raised("KeyError", "outcomes")
             ELSE LET r == ScanOutcomes(best_odds, FirstMarket(bookmaker.markets).outcomes,
                                        bookmaker.title, 1)
                  IN  IF r.exc # "" THEN r
                      ELSE ScanBookmakers(r.val, bookmakers, k + 1)

\* Match.get_best_odds: the dict it returns, and self as it leaves it
GetBestOdds(self) ==
    LET r == ScanBookmakers(<<>>, self.bookmakers, 1)
    IN  IF r.exc # "" THEN r ELSE Returned(r.val, self)

(***************************************************************************)
(* ArbitrageCalculator.evaluate                                            *)
(***************************************************************************)
\* the float of a JSON price given in hundredths: the double nearest c / 100
PriceFloat(c) == FDiv(FInt(c), FInt(100))

\* probabilities = [1 / price for price, _ in best_odds.values()], from the k-th
RECURSIVE Probabilities(_, _)
Probabilities(best_odds, k) ==
    IF k > Len(best_odds) THEN <<>>
    ELSE <<FDiv(FOne, PriceFloat(best_odds[k].price))>> \o Probabilities(best_odds, k + 1)

\* sum(xs[1..k]): 0 + xs[1] + ... + xs[k], left to right
RECURSIVE FSum(_, _)
FSum(xs, k) == IF k = 0 THEN FZero ELSE FAdd(FSum(xs, k - 1), xs[k])

\* total_prob < 1.0
IsArbitrage(total_prob) == FLess(total_prob, FOne)

\* a variant that leaves out the division by total_prob
RECURSIVE StrokesUnscaled(_, _, _, _)
StrokesUnscaled(probabilities, total_prob, total_stake, k) ==
    IF k > Len(probabilities) THEN <<>>
    ELSE <<FMul(probabilities[k], FInt(total_stake))>>
             \o StrokesUnscaled(probabilities, total_prob, total_stake, k + 1)

\* strokes = [(1 / price) / total_prob * self.total_stake for ...], from the k-th
RECURSIVE Strokes(_, _, _, _)
Strokes(probabilities, total_prob, total_stake, k) ==
    IF k > Len(probabilities) THEN <<>>
    ELSE <<FMul(FDiv(probabilities[k], total_prob), FInt(total_stake))>>
             \o Strokes(probabilities, total_prob, total_stake, k + 1)

\* a variant that lists the allocations from the last outcome to the k-th
RECURSIVE OpportunitiesReversed(_, _, _)
OpportunitiesReversed(best_odds, strokes, k) ==
    IF k > Len(best_odds) THEN <<>>
    ELSE Append(OpportunitiesReversed(best_odds, strokes, k + 1),
                [outcome   |-> best_odds[k].name,
                 stake     |-> PyRound(strokes[k], 2),
                 price     |-> best_odds[k].price,
                 bookmaker |-> best_odds[k].bookmaker])

\* result["opportunities"], in the order of best_odds, from the k-th
RECURSIVE Opportunities(_, _, _)
Opportunities(best_odds, strokes, k) ==
    IF k > Len(best_odds) THEN <<>>
    ELSE <<[outcome   |-> best_odds[k].name,
            stake     |-> PyRound(strokes[k], 2),
            price     |-> best_odds[k].price,
            bookmaker |-> best_odds[k].bookmaker]>>
             \o Opportunities(best_odds, strokes, k + 1)

\* min(stake * price for ...) over the first k
RECURSIVE MinReturn(_, _, _)
MinReturn(strokes, best_odds, k) ==
    LET ret == FMul(strokes[k], PriceFloat(best_odds[k].price))
    IN  IF k = 1 THEN ret
        ELSE LET m == MinReturn(strokes, best_odds, k - 1)
             IN  IF FLess(ret, m) THEN ret ELSE m

\* round(min_return - self.total_stake, 2), in hundredths
GuaranteedProfit(strokes, best_odds, total_stake) ==
    PyRound(FSub(MinReturn(strokes, best_odds, Len(best_odds)), FInt(total_stake)), 2)

\* a variant in which evaluate takes the stakes it placed out of total_stake
EvaluateSpends(self, best_odds) ==
    IF best_odds = <<>> THEN self ELSE [self EXCEPT !.total_stake = self.total_stake \div 2]

\* what evaluate leaves of self
EvaluateSelf(self, best_odds) == self

\* sum(probabilities)
TotalProb(probabilities) == FSum(probabilities, Len(probabilities))

\* result = {...} as first built: total_prob in ten-thousandths
Result(total_prob) ==
    [total_prob        |-> PyRound(total_prob, 4),
     is_arbitrage      |-> IsArbitrage(total_prob),
     opportunities     |-> <<>>,
     guaranteed_profit |-> 0]

\* if result["is_arbitrage"]: the allocations and the profit, in hundredths
WithOpportunities(result, best_odds, strokes, total_stake) ==
    [result EXCEPT !.opportunities = Opportunities(best_odds, strokes, 1),
                   !.guaranteed_profit = GuaranteedProfit(strokes, best_odds, total_stake)]

\* evaluate, once total_prob is summed
EvaluateSum(self, best_odds, probabilities, total_prob) ==
    IF ~IsArbitrage(total_prob)
    THEN Returned(Some(Result(total_prob)), EvaluateSelf(self, best_odds))
    ELSE IF FIsZero(total_prob) THEN Raised("ZeroDivisionError", "")
    ELSE Returned(Some(WithOpportunities(Result(total_prob), best_odds,
                          Strokes(probabilities, total_prob, self.total_stake, 1),
                          self.total_stake)),
                  EvaluateSelf(self, best_odds))

\* evaluate, once the implied probabilities are computed
EvaluateProbabilities(self, best_odds, probabilities) ==
    EvaluateSum(self, best_odds, probabilities, TotalProb(probabilities))

\* evaluate
Evaluate(self, best_odds) ==
    IF best_odds = <<>> THEN Returned(None, EvaluateSelf(self, best_odds))
    ELSE IF \E j \in 1..Len(best_odds) : best_odds[j].price = 0
    THEN Raised("ZeroDivisionError", "")
    ELSE EvaluateProbabilities(self, best_odds, Probabilities(best_odds, 1))

(***************************************************************************)
(* Inputs: the decoded payloads main may be given.                         *)
(***************************************************************************)
MaxEvents == 2
MaxBookmakers == 2
MaxQuotes == 3
TotalStake == 100

Names == {"Home", "Draw", "Away"}

\* the sequences over S of length at most n
RECURSIVE SeqsUpTo(_, _)
SeqsUpTo(S, n) ==
    IF n = 0 THEN {<<>>}
    ELSE LET shorter == SeqsUpTo(S, n - 1)
         IN  shorter \cup {Append(q, x) : q \in {t \in shorter : Len(t) = n - 1}, x \in S}

Quote(n, p) == [name |-> n, price |-> p]
Market(quotes) == [outcomes |-> quotes]
Bookmaker(title, markets) == [title |-> title, markets |-> markets]
Event(bookmakers) ==
    [home_team |-> "Arsenal", away_team |-> "Chelsea",
     commence_time |-> "2024-05-01T19:00:00Z", bookmakers |-> bookmakers]

\* d without its key k
Without(d, k) == [x \in DOMAIN d \ {k} |-> d[x]]

BookTitle(k) == <<"BookA", "BookB", "BookC", "BookD">>[k]

\* one bookmaker, one market of up to MaxQuotes quotes, any names and prices
QuotePrices == {200, 300, 600}
MarketEvents ==
    {Event(<<Bookmaker("BookA", <<Market(q)>>)>>) :
        q \in SeqsUpTo({Quote(n, p) : n \in Names, p \in QuotePrices}, MaxQuotes)}

\* up to MaxBookmakers bookmakers, each with no market, one market or two
OverUnder == Market(<<Quote("Over", 900), Quote("Home", 900)>>)
BookQuotes == {Quote("Home", 200), Quote("Home", 300), Quote("Away", 300)}
BookMarkets ==
    {<<>>, <<Market(<<Quote("Home", 300)>>), OverUnder>>}
        \cup {<<Market(q)>> : q \in SeqsUpTo(BookQuotes, 2)}
BookmakerLists ==
    {[k \in 1..Len(ms) |-> Bookmaker(BookTitle(k), ms[k])] :
        ms \in SeqsUpTo(BookMarkets, MaxBookmakers)}
BookmakerEvents == {Event(b) : b \in BookmakerLists}

\* events of a batch: sound ones, and ones that lack a key or quote a bad price
Scenario2 ==
    Event(<<Bookmaker("BookA", <<Market(<<Quote("Home", 250), Quote("Draw", 340), Quote("Away", 400)>>)>>),
            Bookmaker("BookB", <<Market(<<Quote("Home", 210), Quote("Draw", 360), Quote("Away", 420)>>)>>)>>)
Scenario1 ==
    Event(<<Bookmaker("BookA", <<Market(<<Quote("Home", 210), Quote("Draw", 340), Quote("Away", 400)>>)>>)>>)
NoBookmakers == Event(<<>>)
NoHomeTeam == Without(Scenario2, "home_team")
NoMarkets == Event(<<[title |-> "BookA"]>>)
ZeroPrice == Event(<<Bookmaker("BookA", <<Market(<<Quote("Home", 0), Quote("Away", 300)>>)>>)>>)
NegativePrice == Event(<<Bookmaker("BookA", <<Market(<<Quote("Home", -100), Quote("Away", 300)>>)>>)>>)
EmptyMarkets == Event(<<Bookmaker("BookA", <<>>), Bookmaker("BookB", <<>>)>>)
SkippedBookmaker ==
    Event(<<Bookmaker("BookA", <<>>),
            Bookmaker("BookB", <<Market(<<Quote("Home", 250), Quote("Away", 400)>>)>>)>>)
BatchEvents ==
    {Scenario1, Scenario2, NoBookmakers, EmptyMarkets, SkippedBookmaker,
     NoHomeTeam, NoMarkets, ZeroPrice, NegativePrice}

Malformed ==
    {Without(Scenario2, k) : k \in {"away_team", "commence_time", "bookmakers"}}
        \cup {Event(<<[markets |-> <<>>]>>),
              Event(<<Bookmaker("BookA", <<[key |-> "h2h"]>>)>>),
              Event(<<Bookmaker("BookA", <<Market(<<[name |-> "Home"]>>)>>)>>),
              Event(<<Bookmaker("BookA", <<Market(<<[price |-> 200]>>)>>)>>)}

Batches ==
    SeqsUpTo(BatchEvents, MaxEvents)
        \cup {<<m, Scenario2>> : m \in Malformed}
        \cup {<<e>> : e \in MarketEvents \cup BookmakerEvents}

(***************************************************************************)
(* main, from the loop over matches_data on: pc is the statement about to  *)
(* run, out the lines printed so far.                                      *)
(***************************************************************************)
VARIABLES matches_data, i, pc, match, best_odds, arb_result, calculator, out

vars == <<matches_data, i, pc, match, best_odds, arb_result, calculator, out>>

Init ==
    /\ matches_data \in Batches
    /\ i = 0
    /\ pc = "for"
    /\ match = None
    /\ best_odds = <<>>
    /\ arb_result = None
    /\ calculator = [total_stake |-> TotalStake]
    /\ out = <<>>

\* except Exception as e: print(f"An error occurred: {e}"), and main ends;
\* the line is kept with the number of the event and the statement that raised
Except(r, k) ==
    /\ out' = Append(out, [line |-> "error", event |-> k, at |-> pc,
                           exc |-> r.exc, key |-> r.key])
    /\ pc' = "done"

\* match = Match(match_data), r being what the constructor did
BindMatch(r) ==
    IF r.exc # ""
    THEN /\ Except(r, i + 1)
         /\ UNCHANGED <<matches_data, i, match, best_odds, arb_result, calculator>>
    ELSE /\ i' = i + 1
         /\ match' = Some(r.self)
         /\ out' = Append(out, [line |-> "match", i |-> i + 1,
                                start |-> r.self.commence_time])
         /\ pc' = "get_best_odds"
         /\ UNCHANGED <<matches_data, best_odds, arb_result, calculator>>

\* for i, match_data in enumerate(matches_data, start=1): match = Match(match_data)
ForNext ==
    /\ pc = "for"
    /\ i < Len(matches_data)
    /\ BindMatch(NewMatch(matches_data[i + 1]))

\* the loop is exhausted
ForEnd ==
    /\ pc = "for"
    /\ i = Len(matches_data)
    /\ pc' = "done"
    /\ UNCHANGED <<matches_data, i, match, best_odds, arb_result, calculator, out>>

\* best_odds = ..., r being what get_best_odds did
BindBestOdds(r) ==
    IF r.exc # ""
    THEN /\ Except(r, i)
         /\ UNCHANGED <<matches_data, i, match, best_odds, arb_result, calculator>>
    ELSE /\ best_odds' = r.val
         /\ match' = Some(r.self)
         /\ pc' = "evaluate"
         /\ UNCHANGED <<matches_data, i, arb_result, calculator, out>>

\* best_odds = match.get_best_odds()
CallGetBestOdds ==
    /\ pc = "get_best_odds"
    /\ BindBestOdds(GetBestOdds(match[1]))

\* arb_result = ..., r being what evaluate did
BindArbResult(r) ==
    IF r.exc # ""
    THEN /\ Except(r, i)
         /\ UNCHANGED <<matches_data, i, match, best_odds, arb_result, calculator>>
    ELSE /\ arb_result' = r.val
         /\ calculator' = r.self
         /\ pc' = "report"
         /\ UNCHANGED <<matches_data, i, match, best_odds, out>>

\* arb_result = calculator.evaluate(best_odds)
CallEvaluate ==
    /\ pc = "evaluate"
    /\ BindArbResult(Evaluate(calculator, best_odds))

\* if arb_result: print ...; print("-" * 50)
Report ==
    /\ pc = "report"
    /\ out' = Append(out, [line |-> "result", i |-> i, result |-> arb_result])
    /\ pc' = "for"
    /\ UNCHANGED <<matches_data, i, match, best_odds, arb_result, calculator>>

Next == ForNext \/ ForEnd \/ CallGetBestOdds \/ CallEvaluate \/ Report

Spec == Init /\ [][Next]_vars
(***************************************************************************)
(* Properties of get_best_odds, evaluate and main, stated apart from the   *)
(* operators above.                                                        *)
(***************************************************************************)
\* the bookmakers of the match whose best odds were just taken
Snapshot == match[1].bookmakers

\* the quotes of the first markets of the snapshot, each with its bookmaker's place
FirstQuotes ==
    UNION {{[k     |-> k,
             name  |-> Snapshot[k].markets[1].outcomes[j].name,
             price |-> Snapshot[k].markets[1].outcomes[j].price] :
               j \in 1..Len(Snapshot[k].markets[1].outcomes)} :
           k \in {b \in 1..Len(Snapshot) : Snapshot[b].markets # <<>>}}

\* C1: get_best_odds returns a mapping whose keys are exactly the distinct
\* outcome names of the bookmakers' first markets, each with the maximum price
\* quoted for it there and a bookmaker that quoted that maximum.
C1_BestPrice ==
    pc = "evaluate" =>
        /\ {best_odds[n].name : n \in 1..Len(best_odds)} = {q.name : q \in FirstQuotes}
        /\ \A a, b \in 1..Len(best_odds) :
              best_odds[a].name = best_odds[b].name => a = b
        /\ \A n \in 1..Len(best_odds) :
              /\ \A q \in FirstQuotes :
                    q.name = best_odds[n].name => q.price <= best_odds[n].price
              /\ \E q \in FirstQuotes :
                    /\ q.name = best_odds[n].name
                    /\ q.price = best_odds[n].price
                    /\ Snapshot[q.k].title = best_odds[n].bookmaker

\* get_best_odds has returned two keys, one of them taken from the second
\* bookmaker, whose price beat the first bookmaker's
C1_Witness ==
    /\ pc = "evaluate"
    /\ Len(Snapshot) = 2
    /\ Len(best_odds) = 2
    /\ \E n \in 1..2 :
          /\ best_odds[n].bookmaker = Snapshot[2].title
          /\ \E q \in FirstQuotes :
                q.k = 1 /\ q.name = best_odds[n].name /\ q.price < best_odds[n].price

\* C2: among the bookmakers quoting an outcome at the recorded price,
\* get_best_odds records the earliest of the snapshot; a later equal quote
\* never replaces the record.
C2_TieBreak ==
    pc = "evaluate" =>
        \A n \in 1..Len(best_odds) :
           \E q \in FirstQuotes :
              /\ q.name = best_odds[n].name
              /\ q.price = best_odds[n].price
              /\ Snapshot[q.k].title = best_odds[n].bookmaker
              /\ \A r \in FirstQuotes :
                    r.name = q.name /\ r.price = q.price => q.k <= r.k

\* two bookmakers quote the same maximum for an outcome and get_best_odds
\* has returned
C2_Witness ==
    /\ pc = "evaluate"
    /\ \E q, r \in FirstQuotes :
          /\ q.k < r.k
          /\ q.name = r.name
          /\ q.price = r.price
          /\ \E n \in 1..Len(best_odds) :
                best_odds[n].name = q.name /\ best_odds[n].price = q.price

(***************************************************************************)
(* The formulas of evaluate in exact arithmetic: a price c hundredths is   *)
(* the rational c / 100.                                                   *)
(***************************************************************************)
\* [1 / price for price, _ in best_odds.values()], from the k-th
RECURSIVE ExactProbabilities(_, _)
ExactProbabilities(odds, k) ==
    IF k > Len(odds) THEN <<>>
    ELSE <<Rat(100, odds[k].price)>> \o ExactProbabilities(odds, k + 1)

\* sum(probabilities)
ExactTotalProb(odds) == RatSum(ExactProbabilities(odds, 1), Len(odds))

\* [(1 / price) / total_prob * total_stake for ...], from the k-th
RECURSIVE ExactStrokes(_, _, _)
ExactStrokes(odds, total_stake, k) ==
    IF k > Len(odds) THEN <<>>
    ELSE <<RatMul(RatDiv(Rat(100, odds[k].price), ExactTotalProb(odds)), <<total_stake, 1>>)>>
             \o ExactStrokes(odds, total_stake, k + 1)

\* the doubles evaluate computes as strokes
FloatStrokes(probabilities, total_stake) ==
    Strokes(probabilities, TotalProb(probabilities), total_stake, 1)

\* |x - y| < 10^-9
Near(x, y) ==
    /\ FLess(FSub(x, y), FDiv(FOne, FInt(10^9)))
    /\ FLess(FSub(y, x), FDiv(FOne, FInt(10^9)))

\* evaluate has returned a result record for best_odds
Evaluated == pc = "report" /\ arb_result # None

C4_ProfitNotNegative ==
    Evaluated /\ arb_result[1].is_arbitrage => arb_result[1].guaranteed_profit >= 0

\* C5: for every arbitrage result the stakes (1 / price) / total_prob *
\* total_stake sum to total_stake, exactly in exact arithmetic and within
\* 10^-9 as the doubles evaluate computes.
C5_StakeConservation ==
    Evaluated /\ arb_result[1].is_arbitrage =>
        /\ RatSum(ExactStrokes(best_odds, calculator.total_stake, 1), Len(best_odds))
              = <<calculator.total_stake, 1>>
        /\ Near(FSum(FloatStrokes(Probabilities(best_odds, 1), calculator.total_stake),
                     Len(best_odds)),
                FInt(calculator.total_stake))

\* evaluate has returned an arbitrage over three outcomes with a profit
C5_Witness ==
    /\ Evaluated
    /\ arb_result[1].is_arbitrage
    /\ Len(arb_result[1].opportunities) = 3
    /\ arb_result[1].guaranteed_profit > 0

\* every bookmaker of bs has its title and an empty markets sequence
NoData(bs) ==
    \A k \in 1..Len(bs) :
       HasKey(bs[k], "title") /\ HasKey(bs[k], "markets") /\ bs[k].markets = <<>>

\* every bookmaker of bs has its keys, and so has its first market if it has one
WellFormed(bs) ==
    \A k \in 1..Len(bs) :
       /\ HasKey(bs[k], "title") /\ HasKey(bs[k], "markets")
       /\ bs[k].markets # <<>> =>
             /\ HasKey(bs[k].markets[1], "outcomes")
             /\ \A j \in 1..Len(bs[k].markets[1].outcomes) :
                   /\ HasKey(bs[k].markets[1].outcomes[j], "name")
                   /\ HasKey(bs[k].markets[1].outcomes[j], "price")

\* the error lines printed for a failure inside get_best_odds or evaluate
PipelineErrors ==
    {n \in 1..Len(out) : out[n].line = "error" /\ out[n].at # "for"}

\* C6: with no bookmakers, or only bookmakers without markets, get_best_odds
\* returns the empty mapping without raising and evaluate returns None
\* without raising; a bookmaker without markets among others is skipped
\* without failure and the others' prices are recorded.
C6_NoData ==
    /\ \A n \in PipelineErrors :
          /\ ~NoData(matches_data[out[n].event].bookmakers)
          /\ out[n].at = "get_best_odds" =>
                ~WellFormed(matches_data[out[n].event].bookmakers)
    /\ pc \in {"evaluate", "report"} /\ NoData(Snapshot) => best_odds = <<>>
    /\ pc = "report" /\ NoData(Snapshot) => arb_result = None
    /\ pc = "evaluate" /\ (\E k \in 1..Len(Snapshot) : Snapshot[k].markets = <<>>) =>
          \A q \in FirstQuotes :
             \E n \in 1..Len(best_odds) :
                best_odds[n].name = q.name /\ best_odds[n].price >= q.price

\* an event whose bookmakers all lack markets was reported with no result,
\* and get_best_odds has now skipped a first bookmaker without markets and
\* recorded the prices of the second
C6_Witness ==
    /\ pc = "evaluate"
    /\ i = 2
    /\ matches_data[1].bookmakers # <<>>
    /\ NoData(matches_data[1].bookmakers)
    /\ \E n \in 1..Len(out) :
          out[n].line = "result" /\ out[n].i = 1 /\ out[n].result = None
    /\ Len(Snapshot) = 2
    /\ Snapshot[1].markets = <<>>
    /\ best_odds # <<>>

\* C7: a quoted price of 0 or less never yields a result record, and is
\* rejected by validation, never by a division fault.
C7_InvalidPrice ==
    /\ pc = "report" /\ arb_result # None => \A q \in FirstQuotes : q.price > 0
    /\ \A n \in 1..Len(out) :
          out[n].line = "error" => out[n].exc # "ZeroDivisionError"

\* C8: when main has ended, every event after one that failed has been
\* evaluated and reported.
C8_ErrorIsolation ==
    pc = "done" =>
        \A n \in 1..Len(out) :
           out[n].line = "error" =>
              \A k \in out[n].event + 1..Len(matches_data) :
                 \E m \in 1..Len(out) : out[m].line = "result" /\ out[m].i = k

\* C9: for a non-empty mapping evaluate returns a record; without arbitrage
\* its opportunities are empty and its profit 0; with arbitrage there is one
\* allocation per outcome, in the mapping's order, with the outcome's name,
\* best price and bookmaker.
C9_ResultShape ==
    pc = "report" /\ best_odds # <<>> =>
        /\ arb_result # None
        /\ IF ~arb_result[1].is_arbitrage
           THEN /\ arb_result[1].opportunities = <<>>
                /\ arb_result[1].guaranteed_profit = 0
           ELSE /\ Len(arb_result[1].opportunities) = Len(best_odds)
                /\ \A n \in 1..Len(best_odds) :
                      /\ arb_result[1].opportunities[n].outcome = best_odds[n].name
                      /\ arb_result[1].opportunities[n].price = best_odds[n].price
                      /\ arb_result[1].opportunities[n].bookmaker = best_odds[n].bookmaker

\* the second event of a batch was found an arbitrage over three outcomes
\* after the first was found none
C9_Witness ==
    /\ Evaluated
    /\ i = 2
    /\ arb_result[1].is_arbitrage
    /\ Len(arb_result[1].opportunities) = 3
    /\ \E n \in 1..Len(out) :
          /\ out[n].line = "result" /\ out[n].i = 1
          /\ out[n].result # None
          /\ ~out[n].result[1].is_arbitrage

\* the result of get_best_odds followed by evaluate on one event alone, with
\* a calculator just constructed
Alone(match_data) ==
    Evaluate([total_stake |-> TotalStake],
             GetBestOdds(NewMatch(match_data).self).val).val

\* C10: get_best_odds leaves the Match as constructed, evaluate leaves the
\* calculator's total_stake, and the result reported for an event is the one
\* the event gets alone, whatever was evaluated before it.
C10_Stateless ==
    /\ calculator.total_stake = TotalStake
    /\ pc \in {"get_best_odds", "evaluate", "report"} =>
          match = Some(NewMatch(matches_data[i]).self)
    /\ pc = "for" /\ i >= 2 /\ out[Len(out)].line = "result" =>
          out[Len(out)].result = Alone(matches_data[i])

\* two different events were evaluated one after the other with the one
\* calculator, and both gave an arbitrage
C10_Witness ==
    /\ pc = "for"
    /\ i = 2
    /\ \E n \in 1..Len(out) :
          /\ out[n].line = "result" /\ out[n].i = 1
          /\ out[n].result # None /\ out[n].result[1].is_arbitrage
    /\ out[Len(out)].line = "result"
    /\ out[Len(out)].result # None
    /\ out[Len(out)].result[1].is_arbitrage
    /\ matches_data[1] # matches_data[2]

====
